---- MODULE Spec2Model ----
(***************************************************************************)
(* A state-machine model of the SnipScreen screenshot editor:             *)
(* the ScreenshotEditor object (editor-canvas.js), its tools              *)
(* (editor-tools.js), its pointer handlers, its initialisation code and   *)
(* its utilities (throttle, cleanup, loadScreenshot).                      *)
(*                                                                         *)
(* Coordinates.  Pointer positions and element rectangles are JavaScript   *)
(* numbers that are in general not whole pixels (getMousePos multiplies    *)
(* by canvas.width / rect.width).  They are kept here as integers counting *)
(* 1/U of a pixel; canvas and image dimensions, which are integers in the  *)
(* program, are kept in whole pixels.  Math.round becomes RoundDiv, which  *)
(* is exact on rationals (floating point error is not modelled).          *)
(***************************************************************************)
EXTENDS Integers, Sequences, FiniteSets, TLC

\* ----------------------------------------------------------------- bounds
\* Sub-pixel resolution of a coordinate: U units make one pixel (a quarter
\* of a pixel: an element can then be between 1 and 1.5 pixels wide).
U == 4
\* Natural size of the captured image, in pixels.
ImgW == 800
ImgH == 600
\* At most MaxGestures drags are started in a run.
MaxGestures == 2
\* Date.now() reads 0..MaxTime.
MaxTime == 1
\* At most MaxFrames animation-frame callbacks are pending at a time.
MaxFrames == 1

\* ------------------------------------------------------ program constants
\* A canvas element is 300 x 150 until its width and height are set.
DefaultCanvasWidth == 300
DefaultCanvasHeight == 150
\* handleLoadFailure's fallback size for a canvas of width or height 0.
FallbackWidth == 400
FallbackHeight == 300

\* ---------------------------------------------------------------- numbers
Min(a, b) == IF a <= b THEN a ELSE b
Max(a, b) == IF a >= b THEN a ELSE b
Abs(a) == IF a >= 0 THEN a ELSE 0 - a

\* Math.round(p / q) for q > 0: the nearest integer, halves towards +infinity.
RoundDiv(p, q) == (2 * p + q) \div (2 * q)

\* ------------------------------------------------------------------ values
Tools == {"crop", "annotate"}

\* A point {x, y} in units; NullPos is the null of cropStart/cropEnd/annotateStart
\* (getMousePos never returns a negative coordinate).
Pos(x, y) == [x |-> x, y |-> y]
NullPos == [x |-> -1, y |-> -1]

Rect(x, y, w, h) == [x |-> x, y |-> y, width |-> w, height |-> h]
NoRect == Rect(0, 0, 0, 0)

\* The pixels of the working bitmap: blank, or the region (x, y, width, height)
\* of the original image drawn 1:1 at the canvas origin.
BlankContent == [kind |-> "blank", x |-> 0, y |-> 0, width |-> 0, height |-> 0]
ImageContent(x, y, w, h) == [kind |-> "image", x |-> x, y |-> y, width |-> w, height |-> h]

\* canvasState.originalImage: null, or an image with its natural size.
NoImage == [naturalWidth |-> 0, naturalHeight |-> 0]

\* The positions the pointer events of a run carry, already mapped to bitmap
\* space and not yet clamped to the canvas: a whole-pixel point and one
\* between pixels.
Px(x, y) == Pos(x * U, y * U)
RawPoints == { Px(50, 50), Pos(300 * U + U \div 2, 250 * U) }

\* An annotation element: coordinates in units of the current working bitmap.
Element(id, x, y, w, h) ==
  [type |-> "rect", id |-> id, x |-> x, y |-> y, width |-> w, height |-> h,
   color |-> "#000000"]

\* The rectangle of an element, in units.
RectOf(e) == Rect(e.x, e.y, e.width, e.height)

\* ------------------------------------------------------- the visible canvas
\* What the visible canvas shows.  The document pixels are named by the
\* version of the document they were painted from (version; -1 for a cleared
\* canvas or a message) and by whether the elements were painted over the
\* bitmap (elements).  On top of them lies the transient paint: the crop guides
\* (guides), the annotate preview rectangle (preview), and whether older
\* transient paint lies beneath these (residue).  torn records that the render
\* read a bitmap resized by a crop together with elements that were not
\* re-projected.
Shown(version, elems, torn) ==
  [version |-> version, elements |-> elems, guides |-> NoRect, preview |-> FALSE,
   residue |-> FALSE, torn |-> torn]

\* A canvas whose width or height was just assigned is cleared.
Cleared == Shown(-1, FALSE, FALSE)

\* redrawCanvas: clearRect, drawImage(offscreenCanvas), fillRect per element,
\* of the document at version v.
RedrawCanvas(v, stale) == Shown(v, TRUE, stale)

\* drawCropGuides(x, y, width, height): clamp to the canvas, redraw, then paint
\* the mask, the dashed border and the handles of the clamped rectangle.
DrawCropGuides(r, cnv, v, stale) ==
  LET x == Max(0, Min(r.x, cnv.width * U))
      y == Max(0, Min(r.y, cnv.height * U))
      w == Max(0, Min(r.width, cnv.width * U - x))
      h == Max(0, Min(r.height, cnv.height * U - y))
  IN  [RedrawCanvas(v, stale) EXCEPT !.guides = Rect(x, y, w, h)]

\* The rectangle spanned by two points (min corner, absolute extent).
SpanRect(a, b) ==
  Rect(Min(a.x, b.x), Min(a.y, b.y), Abs(b.x - a.x), Abs(b.y - a.y))

\* --------------------------------------------------------------- getMousePos
\* getMousePos, from the scaled position on: clamp to [0, canvas.width] x
\* [0, canvas.height].
GetMousePos(raw, cnv) ==
  Pos(Max(0, Min(raw.x, cnv.width * U)), Max(0, Min(raw.y, cnv.height * U)))

\* ---------------------------------------------------------------- toggleTool
\* Variants of toggleTool that differ from the code: one skips the loop that
\* deactivates the other drawing tools, one only deactivates them, one hands
\* the mode to the other tool when the active tool is toggled off.
ToggledToolsKeepingOthers(active, tool) ==
  IF tool \in active THEN active \ {tool} ELSE active \cup {tool}

ToggledToolsOnlyDeactivating(active, tool) ==
  IF tool \in active THEN active \ {tool}
  ELSE IF active \cap (Tools \ {tool}) # {} THEN active \ (Tools \ {tool})
  ELSE active \cup {tool}

ToggledToolsSwapping(active, tool) ==
  IF tool \in active THEN Tools \ {tool}
  ELSE (active \ (Tools \ {tool})) \cup {tool}

\* The activeTools set after toggleTool(tool) got past the visibility check.
ToggledTools(active, tool) ==
  IF tool \in active
    THEN active \ {tool}
    ELSE (active \ (Tools \ {tool})) \cup {tool}

\* -------------------------------------------------------------- setToolActive
\* A variant of setToolActive that differs from the code: it only ever adds.
SetToolActiveOnlyAdding(active, tool, isActive) ==
  IF isActive THEN active \cup {tool} ELSE active

\* setToolActive: add the tool to the set or delete it from the set.
SetToolActive(active, tool, isActive) ==
  IF isActive THEN active \cup {tool} ELSE active \ {tool}

\* -------------------------------------------------------------- completeCrop
\* Lines 99-109: the selection normalised and clamped to the working bitmap,
\* in units.
CropSelection(cs, ce, cw, ch) ==
  LET displayStartX == Min(cs.x, ce.x)
      displayStartY == Min(cs.y, ce.y)
      displayCropWidth == Max(U, U * RoundDiv(Abs(ce.x - cs.x), U))
      displayCropHeight == Max(U, U * RoundDiv(Abs(ce.y - cs.y), U))
      clampedStartX == Max(0, Min(displayStartX, cw * U))
      clampedStartY == Max(0, Min(displayStartY, ch * U))
      clampedWidth == Max(U, Min(displayCropWidth, cw * U - clampedStartX))
      clampedHeight == Max(U, Min(displayCropHeight, ch * U - clampedStartY))
  IN  Rect(clampedStartX, clampedStartY, clampedWidth, clampedHeight)

\* A variant of the size test that differs from the code: it rejects only a
\* selection under one pixel, which the clamps never produce.
TooSmallUnderOnePixel(sel) == sel.width < U \/ sel.height < U

\* Line 113: the selection is rejected as too small.
TooSmall(sel) == sel.width <= U \/ sel.height <= U

\* A variant of lines 121-132 that counts both end pixels of the selection.
SourceRectInclusive(sel, img, cw, ch) ==
  LET nw == img.naturalWidth
      nh == img.naturalHeight
      sourceX == RoundDiv(sel.x * nw, U * cw)
      sourceY == RoundDiv(sel.y * nh, U * ch)
  IN  Rect(Max(0, Min(sourceX, nw)), Max(0, Min(sourceY, nh)),
           RoundDiv(sel.width * nw, U * cw) + 1, RoundDiv(sel.height * nh, U * ch) + 1)

\* Lines 121-132: the selection mapped to the original image by
\* scale = naturalSize / currentSize and clamped to it, in pixels.
SourceRect(sel, img, cw, ch) ==
  LET nw == img.naturalWidth
      nh == img.naturalHeight
      sourceX == RoundDiv(sel.x * nw, U * cw)
      sourceY == RoundDiv(sel.y * nh, U * ch)
      sourceWidth == RoundDiv(sel.width * nw, U * cw)
      sourceHeight == RoundDiv(sel.height * nh, U * ch)
      clampedSourceX == Max(0, Min(sourceX, nw))
      clampedSourceY == Max(0, Min(sourceY, nh))
      clampedSourceWidth == Max(1, Min(sourceWidth, nw - clampedSourceX))
      clampedSourceHeight == Max(1, Min(sourceHeight, nh - clampedSourceY))
  IN  Rect(clampedSourceX, clampedSourceY, clampedSourceWidth, clampedSourceHeight)

\* A variant of lines 155-165 that scales an element and does not move it.
AdjustElementInPlace(e, img, cw, ch, src) ==
  [e EXCEPT
     !.x = U * RoundDiv(e.x * img.naturalWidth, U * cw),
     !.y = U * RoundDiv(e.y * img.naturalHeight, U * ch),
     !.width = U * RoundDiv(e.width * img.naturalWidth, U * cw),
     !.height = U * RoundDiv(e.height * img.naturalHeight, U * ch)]

\* Lines 155-165: an element scaled to the original image, moved by the source
\* origin and rounded to whole pixels.
AdjustElement(e, img, cw, ch, src) ==
  LET nw == img.naturalWidth
      nh == img.naturalHeight
  IN  [e EXCEPT
         !.x = U * RoundDiv(e.x * nw - src.x * U * cw, U * cw),
         !.y = U * RoundDiv(e.y * nh - src.y * U * ch, U * ch),
         !.width = U * RoundDiv(e.width * nw, U * cw),
         !.height = U * RoundDiv(e.height * nh, U * ch)]

\* A variant of lines 166-170 that keeps only the elements lying entirely
\* inside the new bitmap.
KeepElementInside(e, newCanvasWidth, newCanvasHeight) ==
  /\ e.x >= 0
  /\ e.y >= 0
  /\ e.x + e.width <= newCanvasWidth * U
  /\ e.y + e.height <= newCanvasHeight * U

\* Lines 166-170: the filter an adjusted element must pass to be kept.
KeepElement(e, newCanvasWidth, newCanvasHeight) ==
  /\ e.x + e.width > 0
  /\ e.y + e.height > 0
  /\ e.x < newCanvasWidth * U
  /\ e.y < newCanvasHeight * U

RECURSIVE FilterKept(_, _, _)
FilterKept(elems, w, h) ==
  IF elems = <<>> THEN <<>>
  ELSE LET rest == FilterKept(Tail(elems), w, h)
       IN  IF KeepElement(Head(elems), w, h) THEN <<Head(elems)>> \o rest ELSE rest

\* A variant of lines 154-170 that hands back the kept elements newest first.
AdjustElementsNewestFirst(elems, img, cw, ch, src) ==
  LET kept == FilterKept([i \in 1..Len(elems) |->
                            AdjustElement(elems[i], img, cw, ch, src)],
                         src.width, src.height)
  IN  [i \in 1..Len(kept) |-> kept[Len(kept) + 1 - i]]

\* Lines 154-170: map, then filter.
AdjustElements(elems, img, cw, ch, src) ==
  FilterKept([i \in 1..Len(elems) |-> AdjustElement(elems[i], img, cw, ch, src)],
             src.width, src.height)

\* completeCrop as a whole.  It has no await, so it runs to its end inside
\* handleMouseUp.  v: the version of the document; throws: drawImage (line
\* 146) raises an exception.  Returns the fields it leaves behind and its
\* outcome.
CompleteCrop(cs, ce, active, img, cnv, off, elems, v, stale, throws) ==
  LET sel == CropSelection(cs, ce, off.width, off.height)
      src == SourceRect(sel, img, off.width, off.height)
      same(outcome) ==
        \* resetCropState: the selection is cleared and the canvas redrawn.
        [outcome |-> outcome, activeTools |-> active, canvas |-> cnv,
         offscreenCanvas |-> off, annotationElements |-> elems, version |-> v,
         stale |-> stale, display |-> RedrawCanvas(v, stale)]
  IN  IF cs = NullPos \/ ce = NullPos \/ "crop" \notin active \/ img = NoImage
        THEN same("prerequisites")
      ELSE IF off.width = 0 \/ off.height = 0
        THEN same("invalid")
      ELSE IF TooSmall(sel)
        THEN same("tooSmall")
      ELSE IF throws
        THEN \* Lines 138-146 ran, lines 151-179 did not: the canvases are
             \* resized (and so cleared), the elements are as before; the
             \* catch block and resetCropState redraw.
             [outcome |-> "error", activeTools |-> active,
              canvas |-> [width |-> src.width, height |-> src.height],
              offscreenCanvas |-> [width |-> src.width, height |-> src.height,
                                   content |-> BlankContent],
              annotationElements |-> elems, version |-> v + 1,
              stale |-> stale \/ elems # <<>>,
              display |-> RedrawCanvas(v + 1, stale \/ elems # <<>>)]
      ELSE [outcome |-> "ok", activeTools |-> SetToolActive(active, "crop", FALSE),
            canvas |-> [width |-> src.width, height |-> src.height],
            offscreenCanvas |-> [width |-> src.width, height |-> src.height,
                                 content |-> ImageContent(src.x, src.y, src.width,
                                                          src.height)],
            annotationElements |-> AdjustElements(elems, img, off.width, off.height, src),
            version |-> v + 1, stale |-> stale,
            display |-> RedrawCanvas(v + 1, stale)]

\* -------------------------------------------------------- prepareFinalCanvas
\* The export buffer: sized as the offscreen canvas, filled white, the
\* offscreen canvas drawn, then each element at Math.round of its fields (in
\* pixels).  A 1 x 1 canvas when the offscreen canvas is missing or empty.
RoundedRect(e) ==
  Rect(RoundDiv(e.x, U), RoundDiv(e.y, U), RoundDiv(e.width, U), RoundDiv(e.height, U))

\* A variant of prepareFinalCanvas that truncates the fields of an element
\* instead of rounding them.
PrepareFinalCanvasTruncating(off, elems, stale, gone) ==
  IF gone \/ off.width = 0 \/ off.height = 0
    THEN [width |-> 1, height |-> 1, background |-> "none", base |-> BlankContent,
          drawn |-> <<>>, torn |-> FALSE]
    ELSE [width |-> off.width, height |-> off.height, background |-> "#FFFFFF",
          base |-> off.content,
          drawn |-> [i \in 1..Len(elems) |->
                       Rect(elems[i].x \div U, elems[i].y \div U,
                            elems[i].width \div U, elems[i].height \div U)],
          torn |-> stale]

PrepareFinalCanvas(off, elems, stale, gone) ==
  IF gone \/ off.width = 0 \/ off.height = 0
    THEN [width |-> 1, height |-> 1, background |-> "none", base |-> BlankContent,
          drawn |-> <<>>, torn |-> FALSE]
    ELSE [width |-> off.width, height |-> off.height, background |-> "#FFFFFF",
          base |-> off.content,
          drawn |-> [i \in 1..Len(elems) |-> RoundedRect(elems[i])],
          torn |-> stale]

\* ------------------------------------------------------------------- state
VARIABLES
  activeTools,        \* state.activeTools
  isDrawing,          \* state.isDrawing
  cropStart,          \* drawingState.cropStart
  cropEnd,            \* drawingState.cropEnd
  annotateStart,      \* drawingState.annotateStart
  canvas,             \* width and height of the visible canvas, in pixels
  offscreenCanvas,    \* width, height and content of the working bitmap
  originalImage,      \* canvasState.originalImage
  lastImageData,      \* canvasState.lastImageData: <<>> or <<a display>>
  annotationElements, \* elements.annotationElements
  toolsDisplayed,     \* style.display of the toolbar's tool items is not 'none'
  loadState,          \* "pending", "loaded" or "failed"
  cleaned,            \* cleanup() has run: canvas, ctx, offscreenCanvas are null
  listening,          \* the four pointer listeners are attached to the canvas
  inThrottle,         \* throttle's flag, for throttledDrawCropGuides
  frames,             \* positions of the pending annotate-preview callbacks
  display,            \* what the visible canvas shows
  now,                \* the last reading of Date.now()
  pointer,            \* the positions the pointer events of this run carry
  docVersion,         \* history: changes of the bitmap or the element list so far
  stale,              \* history: a crop resized the bitmap and left the elements
  gestures,           \* history: drags started so far
  finalCanvas,        \* <<>> or <<the buffer the last operation exported>>
  before,             \* history: the document and selection a crop started from
  last,               \* history: the last operation and its outcome
  download,           \* the call of tryDownload in progress or ended
  mousePos,           \* the last call of getMousePos: its inputs and its result
  filename,           \* the filename saveImage built for the last call of tryDownload
  storage,            \* chrome.storage.local: the currentScreenshot entry, <<>> when absent
  handoffs            \* per capture: where handleScreenshot and the editor page it opened are

vars ==
  <<activeTools, isDrawing, cropStart, cropEnd, annotateStart, canvas,
    offscreenCanvas, originalImage, lastImageData, annotationElements,
    toolsDisplayed, loadState, cleaned, listening, inThrottle, frames, display,
    now, pointer, docVersion, stale, gestures, finalCanvas, before, last,
    download, mousePos, filename, storage, handoffs>>

\* The utility calls that are modelled on their own (tryDownload, getMousePos
\* with its scaling, the filename of saveImage): the editor's actions leave
\* them alone.
calls == <<download, mousePos, filename, storage, handoffs>>

\* The captures handleScreenshot makes in one run.
MaxCaptures == 2

\* The handoff of capture i has not begun: handleScreenshot was not called
\* and no editor page exists.
NoHandoff == [background |-> "idle", editor |-> "none"]

\* No utility call was made yet.
NoCalls ==
  /\ download = [phase |-> "none", caller |-> "none", retries |-> 0,
                 attempt |-> 0, attempts |-> 0, failures |-> 0,
                 successes |-> 0, waited |-> 0]
  /\ mousePos = <<>>
  /\ filename = <<>>
  /\ storage = <<>>
  /\ handoffs = [i \in 1..MaxCaptures |-> NoHandoff]

\* The document before a gesture ended, with the gesture's anchor and release
\* point (for a crop: the selection completeCrop reads).
Before(start, end) ==
  [canvas |-> canvas, offscreenCanvas |-> offscreenCanvas,
   originalImage |-> originalImage, annotationElements |-> annotationElements,
   cropStart |-> start, cropEnd |-> end]

NoBefore ==
  [canvas |-> [width |-> 0, height |-> 0],
   offscreenCanvas |-> [width |-> 0, height |-> 0, content |-> BlankContent],
   originalImage |-> NoImage, annotationElements |-> <<>>,
   cropStart |-> NullPos, cropEnd |-> NullPos]

\* An operation, its tool, its outcome, and the tools active before it.
Op(op, tool, outcome) ==
  [op |-> op, tool |-> tool, outcome |-> outcome, active |-> activeTools]

\* A pointer or timer event that ends no gesture.
Event == [op |-> "event", tool |-> "", outcome |-> "", active |-> {}]

\* The state the constructor leaves: the canvases at their default size, no
\* image yet (loadScreenshot awaits the storage), the listeners attached.
Init ==
  /\ activeTools = {}
  /\ isDrawing = FALSE
  /\ cropStart = NullPos
  /\ cropEnd = NullPos
  /\ annotateStart = NullPos
  /\ canvas = [width |-> DefaultCanvasWidth, height |-> DefaultCanvasHeight]
  /\ offscreenCanvas = [width |-> DefaultCanvasWidth, height |-> DefaultCanvasHeight,
                        content |-> BlankContent]
  /\ originalImage = NoImage
  /\ lastImageData = <<>>
  /\ annotationElements = <<>>
  /\ toolsDisplayed = TRUE
  /\ loadState = "pending"
  /\ cleaned = FALSE
  /\ listening = TRUE
  /\ inThrottle = FALSE
  /\ frames = <<>>
  /\ display = Cleared
  /\ now = 0
  /\ pointer = RawPoints
  /\ docVersion = 0
  /\ stale = FALSE
  /\ gestures = 0
  /\ finalCanvas = <<>>
  /\ before = NoBefore
  /\ last = Event
  /\ NoCalls

\* ------------------------------------------------------------ toolbar clicks
\* toggleTool(tool): returns at once when the tool's element is hidden;
\* otherwise toggles, and redraws when it deactivated crop.  gone: the canvas
\* is null, so redrawCanvas returns at once.
ToggleTool(tool, active, disp, displayed, v, st, gone) ==
  IF ~displayed
    THEN [activeTools |-> active, display |-> disp]
    ELSE [activeTools |-> ToggledTools(active, tool),
          display |-> IF tool \in active /\ tool = "crop" /\ ~gone
                        THEN RedrawCanvas(v, st)
                        ELSE disp]

\* The click listener of cropTool / annotateTool.
ToolClick(tool) ==
  LET r == ToggleTool(tool, activeTools, display, toolsDisplayed, docVersion, stale,
                      cleaned)
  IN  /\ activeTools' = r.activeTools
      /\ display' = r.display
      /\ finalCanvas' = <<>>
      /\ before' = NoBefore
      /\ last' = Op("toggleTool", tool, IF toolsDisplayed THEN "toggled" ELSE "hidden")
      /\ UNCHANGED <<isDrawing, cropStart, cropEnd, annotateStart, canvas,
                     offscreenCanvas, originalImage, lastImageData,
                     annotationElements, toolsDisplayed, loadState, cleaned,
                     listening, inThrottle, frames, now, pointer, docVersion, stale, gestures>>
      /\ UNCHANGED calls

\* The listener's loop over ['crop', 'annotate'] before a copy or a save:
\* every active drawing tool is toggled.
DeselectTools(active, disp, displayed, v, st, gone) ==
  LET r1 == IF "crop" \in active
              THEN ToggleTool("crop", active, disp, displayed, v, st, gone)
              ELSE [activeTools |-> active, display |-> disp]
  IN  IF "annotate" \in r1.activeTools
        THEN ToggleTool("annotate", r1.activeTools, r1.display, displayed, v, st, gone)
        ELSE r1

\* A variant of copyToClipboard / saveImage without the test for a crop in
\* progress.
ExportWithoutCropCheck(kind, active, drawing, cnv, off, elems, st, gone, supported) ==
  IF gone \/ cnv.width = 0 \/ cnv.height = 0
    THEN [outcome |-> "empty", finalCanvas |-> <<>>]
  ELSE IF kind = "copy" /\ ~supported
    THEN [outcome |-> "unsupported", finalCanvas |-> <<>>]
  ELSE [outcome |-> "prepared",
        finalCanvas |-> <<PrepareFinalCanvas(off, elems, st, gone)>>]

\* copyToClipboard / saveImage up to the export buffer: the outcome of the
\* checks, and the buffer when one is prepared.  supported: the clipboard API
\* is there (copy only; it is tested before the buffer is prepared).
Export(kind, active, drawing, cnv, off, elems, st, gone, supported) ==
  IF gone \/ cnv.width = 0 \/ cnv.height = 0
    THEN [outcome |-> "empty", finalCanvas |-> <<>>]
  ELSE IF drawing /\ "crop" \in active
    THEN [outcome |-> "finalizeCrop", finalCanvas |-> <<>>]
  ELSE IF kind = "copy" /\ ~supported
    THEN [outcome |-> "unsupported", finalCanvas |-> <<>>]
  ELSE [outcome |-> "prepared",
        finalCanvas |-> <<PrepareFinalCanvas(off, elems, st, gone)>>]

\* A variant of the copy / save listener that differs from the code: an export
\* that prepared its buffer flattens the elements into the working bitmap and
\* empties the list.
ExportClickFlattening(kind, supported) ==
  LET d == DeselectTools(activeTools, display, toolsDisplayed, docVersion, stale,
                         cleaned)
      e == Export(kind, d.activeTools, isDrawing, canvas, offscreenCanvas,
                  annotationElements, stale, cleaned, supported)
  IN  /\ activeTools' = d.activeTools
      /\ display' = d.display
      /\ finalCanvas' = e.finalCanvas
      /\ annotationElements' =
           IF e.outcome = "prepared" THEN <<>> ELSE annotationElements
      /\ before' = NoBefore
      /\ last' = Op(kind, "", e.outcome)
      /\ UNCHANGED <<isDrawing, cropStart, cropEnd, annotateStart, canvas,
                     offscreenCanvas, originalImage, lastImageData,
                     toolsDisplayed, loadState, cleaned, listening, inThrottle,
                     frames, now, pointer, docVersion, stale, gestures>>
      /\ UNCHANGED calls

\* The click listener of shareTool (kind = "copy") / saveTool (kind = "save").
\* What follows the buffer (toBlob, clipboard.write, storage.get, download)
\* touches no field of the editor.
ExportClick(kind, supported) ==
  LET d == DeselectTools(activeTools, display, toolsDisplayed, docVersion, stale,
                         cleaned)
      e == Export(kind, d.activeTools, isDrawing, canvas, offscreenCanvas,
                  annotationElements, stale, cleaned, supported)
  IN  /\ activeTools' = d.activeTools
      /\ display' = d.display
      /\ finalCanvas' = e.finalCanvas
      /\ before' = NoBefore
      /\ last' = Op(kind, "", e.outcome)
      /\ UNCHANGED <<isDrawing, cropStart, cropEnd, annotateStart, canvas,
                     offscreenCanvas, originalImage, lastImageData,
                     annotationElements, toolsDisplayed, loadState, cleaned,
                     listening, inThrottle, frames, now, pointer, docVersion, stale, gestures>>
      /\ UNCHANGED calls

\* ------------------------------------------------------------ pointer events
\* After cleanup() the canvas is null and getMousePos raises a TypeError on
\* this.canvas.width: a handler that calls it ends there.

\* handleMouseDown (left button).
HandleMouseDown(raw) ==
  LET pos == GetMousePos(raw, canvas)
  IN  /\ listening
      /\ IF cleaned
           THEN UNCHANGED <<isDrawing, cropStart, cropEnd, annotateStart,
                            lastImageData, gestures>>
         ELSE IF "crop" \in activeTools
           THEN /\ gestures < MaxGestures
                /\ gestures' = gestures + 1
                /\ isDrawing' = TRUE
                /\ cropStart' = pos
                /\ cropEnd' = pos
                /\ UNCHANGED <<annotateStart, lastImageData>>
         ELSE IF "annotate" \in activeTools
           THEN /\ gestures < MaxGestures
                /\ gestures' = gestures + 1
                /\ isDrawing' = TRUE
                /\ annotateStart' = pos
                /\ lastImageData' = <<display>>
                /\ UNCHANGED <<cropStart, cropEnd>>
         ELSE /\ isDrawing' = FALSE
              /\ UNCHANGED <<cropStart, cropEnd, annotateStart, lastImageData,
                             gestures>>
      /\ finalCanvas' = <<>>
      /\ before' = NoBefore
      /\ last' = Event
      /\ UNCHANGED <<activeTools, canvas, offscreenCanvas, originalImage,
                     annotationElements, toolsDisplayed, loadState, cleaned,
                     listening, inThrottle, frames, display, now, pointer,
                     docVersion, stale>>
      /\ UNCHANGED calls

\* A variant of handleMouseMove that differs from the code: during an annotate
\* drag it pushes the preview rectangle onto the element list instead of
\* queueing a callback that paints it.
HandleMouseMoveCommitting(raw) ==
  LET pos == GetMousePos(raw, canvas)
      r == SpanRect(annotateStart, pos)
  IN  /\ listening
      /\ ~cleaned
      /\ isDrawing
      /\ "annotate" \in activeTools
      /\ annotateStart # NullPos
      /\ Len(annotationElements) < MaxGestures
      /\ annotationElements' =
           Append(annotationElements, Element(now, r.x, r.y, r.width, r.height))
      /\ finalCanvas' = <<>>
      /\ before' = NoBefore
      /\ last' = Event
      /\ UNCHANGED <<activeTools, isDrawing, cropStart, cropEnd, annotateStart,
                     canvas, offscreenCanvas, originalImage, lastImageData,
                     toolsDisplayed, loadState, cleaned, listening, inThrottle,
                     frames, display, now, pointer, docVersion, stale, gestures>>
      /\ UNCHANGED calls

\* handleMouseMove.  The crop branch calls throttledDrawCropGuides: throttle
\* runs the function when inThrottle is unset, sets the flag and starts the
\* timer, and does nothing when the flag is set.  The annotate branch queues an
\* animation-frame callback that closes over pos.
HandleMouseMove(raw) ==
  LET pos == GetMousePos(raw, canvas)
  IN  /\ listening
      /\ IF cleaned \/ ~isDrawing
           THEN UNCHANGED <<cropEnd, inThrottle, display, frames>>
         ELSE IF "crop" \in activeTools /\ cropStart # NullPos
           THEN /\ cropEnd' = pos
                /\ IF ~inThrottle
                     THEN /\ display' = DrawCropGuides(SpanRect(cropStart, pos), canvas,
                                                       docVersion, stale)
                          /\ inThrottle' = TRUE
                     ELSE UNCHANGED <<display, inThrottle>>
                /\ UNCHANGED frames
         ELSE IF "annotate" \in activeTools /\ annotateStart # NullPos
           THEN /\ Len(frames) < MaxFrames
                /\ frames' = Append(frames, pos)
                /\ UNCHANGED <<cropEnd, inThrottle, display>>
         ELSE UNCHANGED <<cropEnd, inThrottle, display, frames>>
      /\ finalCanvas' = <<>>
      /\ before' = NoBefore
      /\ last' = Event
      /\ UNCHANGED <<activeTools, isDrawing, cropStart, annotateStart, canvas,
                     offscreenCanvas, originalImage, lastImageData,
                     annotationElements, toolsDisplayed, loadState, cleaned,
                     listening, now, pointer, docVersion, stale, gestures>>
      /\ UNCHANGED calls

\* The timer throttle started: the flag is cleared.
ThrottleTimeout ==
  /\ inThrottle
  /\ inThrottle' = FALSE
  /\ finalCanvas' = <<>>
  /\ before' = NoBefore
  /\ last' = Event
  /\ UNCHANGED <<activeTools, isDrawing, cropStart, cropEnd, annotateStart, canvas,
                 offscreenCanvas, originalImage, lastImageData, annotationElements,
                 toolsDisplayed, loadState, cleaned, listening, frames, display, now,
                 pointer, docVersion, stale, gestures>>
  /\ UNCHANGED calls

\* restoreCanvasState: putImageData of the snapshot, or a redraw without one.
\* gone: ctx is null and neither happens.
RestoreCanvasState(snap, disp, v, st, gone) ==
  IF gone THEN disp
  ELSE IF snap # <<>> THEN snap[1]
  ELSE RedrawCanvas(v, st)

\* One annotate-preview callback, for the position pos it closed over.
PreviewFrame(pos, disp, drawing, active, start, snap, v, st, gone) ==
  IF ~drawing \/ "annotate" \notin active \/ start = NullPos \/ gone
    THEN disp
    ELSE LET restored == RestoreCanvasState(snap, disp, v, st, gone)
             r == SpanRect(start, pos)
         IN  IF r.width > 0 /\ r.height > 0
               THEN [restored EXCEPT
                       !.preview = TRUE,
                       !.residue = restored.residue \/ restored.preview]
               ELSE restored

RECURSIVE RunFrames(_, _, _, _, _, _, _, _, _)
RunFrames(queue, disp, drawing, active, start, snap, v, st, gone) ==
  IF queue = <<>> THEN disp
  ELSE RunFrames(Tail(queue),
                 PreviewFrame(Head(queue), disp, drawing, active, start, snap, v, st,
                              gone),
                 drawing, active, start, snap, v, st, gone)

\* An animation frame: the pending callbacks run, in the order queued.
AnimationFrame ==
  /\ frames # <<>>
  /\ frames' = <<>>
  /\ display' = RunFrames(frames, display, isDrawing, activeTools, annotateStart,
                          lastImageData, docVersion, stale, cleaned)
  /\ finalCanvas' = <<>>
  /\ before' = NoBefore
  /\ last' = Event
  /\ UNCHANGED <<activeTools, isDrawing, cropStart, cropEnd, annotateStart, canvas,
                 offscreenCanvas, originalImage, lastImageData, annotationElements,
                 toolsDisplayed, loadState, cleaned, listening, inThrottle, now,
                 pointer, docVersion, stale, gestures>>
  /\ UNCHANGED calls

\* Variants of the size test of handleMouseUp's annotate branch that differ
\* from the code: one accepts a rectangle of no extent, one accepts none.
AnnotationLargeEnoughFromZero(r) == r.width >= 0 /\ r.height >= 0

AnnotationLargeEnoughNever(r) == r.width > U /\ r.height > U /\ r.width < 0

\* width > 1 && height > 1 in handleMouseUp's annotate branch.
AnnotationLargeEnough(r) == r.width > U /\ r.height > U

\* handleMouseUp (left button).  throws: drawImage raises inside completeCrop;
\* t: what Date.now() reads.
HandleMouseUp(raw, throws, t) ==
  LET pos == GetMousePos(raw, canvas)
      crop == CompleteCrop(cropStart, pos, activeTools, originalImage, canvas,
                           offscreenCanvas, annotationElements, docVersion, stale,
                           throws)
      r == SpanRect(annotateStart, pos)
  IN  /\ listening
      /\ IF cleaned \/ ~isDrawing
           THEN /\ last' = Event
                /\ before' = NoBefore
                /\ UNCHANGED <<activeTools, isDrawing, cropStart, cropEnd,
                               annotateStart, canvas, offscreenCanvas,
                               annotationElements, display, now, docVersion, stale, gestures>>
         ELSE IF "crop" \in activeTools /\ cropStart # NullPos
           THEN \* cropEnd = pos; completeCrop(), which ends in resetCropState
                /\ isDrawing' = FALSE
                /\ cropStart' = NullPos
                /\ cropEnd' = NullPos
                /\ activeTools' = crop.activeTools
                /\ canvas' = crop.canvas
                /\ offscreenCanvas' = crop.offscreenCanvas
                /\ annotationElements' = crop.annotationElements
                /\ display' = crop.display
                /\ docVersion' = crop.version
                /\ stale' = crop.stale
                /\ before' = Before(cropStart, pos)
                /\ last' = Op("completeCrop", "crop", crop.outcome)
                /\ UNCHANGED <<annotateStart, now, gestures>>
         ELSE IF "annotate" \in activeTools /\ annotateStart # NullPos
           THEN /\ isDrawing' = FALSE
                /\ annotateStart' = NullPos
                /\ before' = Before(annotateStart, pos)
                /\ IF AnnotationLargeEnough(r)
                     THEN /\ t >= now
                          /\ now' = t
                          /\ annotationElements' =
                               Append(annotationElements,
                                      Element(t, r.x, r.y, r.width, r.height))
                          /\ docVersion' = docVersion + 1
                          /\ display' = RedrawCanvas(docVersion + 1, stale)
                          /\ last' = Op("annotate", "annotate", "added")
                     ELSE /\ display' = RestoreCanvasState(lastImageData, display,
                                                           docVersion, stale, FALSE)
                          /\ last' = Op("annotate", "annotate", "discarded")
                          /\ UNCHANGED <<annotationElements, now, docVersion>>
                /\ UNCHANGED <<activeTools, cropStart, cropEnd, canvas,
                               offscreenCanvas, stale, gestures>>
         ELSE /\ isDrawing' = FALSE
              /\ before' = NoBefore
              /\ last' = Event
              /\ UNCHANGED <<activeTools, cropStart, cropEnd, annotateStart, canvas,
                             offscreenCanvas, annotationElements, display, now,
                             docVersion, stale, gestures>>
      /\ finalCanvas' = <<>>
      /\ UNCHANGED <<originalImage, lastImageData, toolsDisplayed, loadState,
                     cleaned, listening, inThrottle, frames, pointer>>
      /\ UNCHANGED calls

\* A variant of handleMouseLeave's cancellation that keeps the anchor.
AnchorAfterLeaveKept(active, tool, anchor) == anchor

\* handleMouseLeave, lines 186-202: the anchor of a tool that is active is set
\* to null (for crop by resetCropState); the anchor of a tool that is not
\* active is left as it is.
AnchorAfterLeave(active, tool, anchor) ==
  IF tool \in active THEN NullPos ELSE anchor

\* handleMouseLeave.  With the canvas null resetCropState and
\* restoreCanvasState paint nothing.
HandleMouseLeave ==
  /\ listening
  /\ IF isDrawing
       THEN /\ isDrawing' = FALSE
            /\ cropStart' = AnchorAfterLeave(activeTools, "crop", cropStart)
            /\ cropEnd' = AnchorAfterLeave(activeTools, "crop", cropEnd)
            /\ annotateStart' = AnchorAfterLeave(activeTools, "annotate", annotateStart)
            /\ display' =
                 LET afterCrop == IF "crop" \in activeTools /\ ~cleaned
                                    THEN RedrawCanvas(docVersion, stale)
                                    ELSE display
                 IN  IF "annotate" \in activeTools
                       THEN RestoreCanvasState(lastImageData, afterCrop, docVersion,
                                               stale, cleaned)
                       ELSE afterCrop
            /\ last' = Op("mouseLeave", "", "cancelled")
       ELSE /\ last' = Event
            /\ UNCHANGED <<isDrawing, cropStart, cropEnd, annotateStart, display>>
  /\ finalCanvas' = <<>>
  /\ before' = NoBefore
  /\ UNCHANGED <<activeTools, canvas, offscreenCanvas, originalImage,
                 lastImageData, annotationElements, toolsDisplayed, loadState,
                 cleaned, listening, inThrottle, frames, now, pointer, docVersion,
                 stale, gestures>>
  /\ UNCHANGED calls

\* ---------------------------------------------------------------- the load
\* img.onload in loadScreenshot: the image is kept, both canvases take its
\* natural size, the image is drawn to the offscreen canvas and that to the
\* visible one (the elements are not painted).
LoadSuccess ==
  /\ loadState = "pending"
  /\ ~cleaned
  /\ loadState' = "loaded"
  /\ originalImage' = [naturalWidth |-> ImgW, naturalHeight |-> ImgH]
  /\ canvas' = [width |-> ImgW, height |-> ImgH]
  /\ offscreenCanvas' = [width |-> ImgW, height |-> ImgH,
                         content |-> ImageContent(0, 0, ImgW, ImgH)]
  /\ docVersion' = docVersion + 1
  /\ display' = Shown(docVersion + 1, annotationElements = <<>>, stale)
  /\ finalCanvas' = <<>>
  /\ before' = NoBefore
  /\ last' = Op("load", "", "loaded")
  /\ UNCHANGED <<activeTools, isDrawing, cropStart, cropEnd, annotateStart,
                 lastImageData, annotationElements, toolsDisplayed, cleaned,
                 listening, inThrottle, frames, now, pointer, stale, gestures>>
  /\ UNCHANGED calls

\* handleLoadFailure, reached from loadScreenshot's catch (no screenshot in the
\* storage) or from img.onerror: both canvases are assigned their size (or
\* the fallback size for 0) and so cleared, the message is painted, the tool
\* items are hidden.
HandleLoadFailure ==
  LET w == IF canvas.width # 0 THEN canvas.width ELSE FallbackWidth
      h == IF canvas.height # 0 THEN canvas.height ELSE FallbackHeight
  IN  /\ loadState = "pending"
      /\ ~cleaned
      /\ loadState' = "failed"
      /\ canvas' = [width |-> w, height |-> h]
      /\ offscreenCanvas' = [width |-> w, height |-> h, content |-> BlankContent]
      /\ docVersion' = docVersion + 1
      /\ display' = Cleared
      /\ toolsDisplayed' = FALSE
      /\ finalCanvas' = <<>>
      /\ before' = NoBefore
      /\ last' = Op("load", "", "failed")
      /\ UNCHANGED <<activeTools, isDrawing, cropStart, cropEnd, annotateStart,
                     originalImage, lastImageData, annotationElements, cleaned,
                     listening, inThrottle, frames, now, pointer, stale, gestures>>
      /\ UNCHANGED calls

\* ------------------------------------------------------------------ cleanup
\* removeEditorEventListeners: removes the four listeners when this.canvas is
\* set.  gone: this.canvas is null.
RemoveEditorEventListeners(attached, gone) ==
  IF gone THEN attached ELSE FALSE

\* cleanup(), on beforeunload: the canvases and the image are dropped, the
\* element list is emptied, removeEditorEventListeners is called (after
\* this.canvas was set to null), the active tools are cleared.
Cleanup ==
  /\ ~cleaned
  /\ cleaned' = TRUE
  /\ originalImage' = NoImage
  /\ annotationElements' = <<>>
  /\ docVersion' = docVersion + 1
  /\ lastImageData' = <<>>
  /\ listening' = RemoveEditorEventListeners(listening, TRUE)
  /\ activeTools' = {}
  /\ finalCanvas' = <<>>
  /\ before' = NoBefore
  /\ last' = Op("cleanup", "", "")
  /\ UNCHANGED <<isDrawing, cropStart, cropEnd, annotateStart, canvas,
                 offscreenCanvas, toolsDisplayed, loadState, inThrottle, frames,
                 display, now, pointer, stale, gestures>>
  /\ UNCHANGED calls

\* What a handler uses of its inputs.  handleMouseDown stores the position only
\* when a drawing tool is active, handleMouseMove and handleMouseUp use it only
\* in the crop and annotate branches of a drag; handleMouseUp calls
\* completeCrop (where drawImage may raise) only in its crop branch and reads
\* Date.now() only in its annotate branch; only copyToClipboard tests the
\* clipboard API.  An input the handler does not use in the current state is
\* drawn from a single value.
CropDrag == ~cleaned /\ isDrawing /\ "crop" \in activeTools /\ cropStart # NullPos
AnnotateDrag ==
  /\ ~cleaned /\ isDrawing /\ ~CropDrag
  /\ "annotate" \in activeTools /\ annotateStart # NullPos
PressPositions ==
  IF ~cleaned /\ activeTools \cap Tools # {}
    THEN pointer ELSE {CHOOSE raw \in pointer : TRUE}
DragPositions ==
  IF CropDrag \/ AnnotateDrag THEN pointer ELSE {CHOOSE raw \in pointer : TRUE}
DrawImageThrows == IF CropDrag THEN BOOLEAN ELSE {FALSE}
DateNow == IF AnnotateDrag THEN 0..MaxTime ELSE {0}
ClipboardSupport(kind) == IF kind = "copy" THEN BOOLEAN ELSE {TRUE}

\* What the user and the timers do once the page is set up.
Editing ==
  \/ \E tool \in Tools : ToolClick(tool)
  \/ \E kind \in {"copy", "save"} : \E supported \in ClipboardSupport(kind) :
        ExportClick(kind, supported)
  \/ \E raw \in PressPositions : HandleMouseDown(raw)
  \/ \E raw \in DragPositions : HandleMouseMove(raw)
  \/ \E raw \in DragPositions, throws \in DrawImageThrows, t \in DateNow :
        HandleMouseUp(raw, throws, t)
  \/ HandleMouseLeave
  \/ ThrottleTimeout
  \/ AnimationFrame

Next ==
  \/ Editing
  \/ LoadSuccess
  \/ HandleLoadFailure
  \/ Cleanup

Spec == Init /\ [][Next]_vars

\* ------------------------------------------------------------ the scenario
\* An 800 x 600 screenshot is loaded and two rectangles were drawn on it, at
\* (50,50,20,20) and (150,150,20,20); no tool is active.  The pointer visits
\* (100,100), (300,250) and the sub-pixel position (160.5,160).  The drags
\* counted are those that follow.
ScenarioPoints == { Px(100, 100), Px(300, 250), Pos(160 * U + U \div 2, 160 * U) }

InitScenario ==
  /\ activeTools = {}
  /\ isDrawing = FALSE
  /\ cropStart = NullPos
  /\ cropEnd = NullPos
  /\ annotateStart = NullPos
  /\ canvas = [width |-> 800, height |-> 600]
  /\ offscreenCanvas = [width |-> 800, height |-> 600,
                        content |-> ImageContent(0, 0, 800, 600)]
  /\ originalImage = [naturalWidth |-> 800, naturalHeight |-> 600]
  /\ lastImageData = <<RedrawCanvas(2, FALSE)>>
  /\ annotationElements = << Element(0, 50 * U, 50 * U, 20 * U, 20 * U),
                             Element(1, 150 * U, 150 * U, 20 * U, 20 * U) >>
  /\ toolsDisplayed = TRUE
  /\ loadState = "loaded"
  /\ cleaned = FALSE
  /\ listening = TRUE
  /\ inThrottle = FALSE
  /\ frames = <<>>
  /\ display = RedrawCanvas(3, FALSE)
  /\ now = 1
  /\ pointer = ScenarioPoints
  /\ docVersion = 3
  /\ stale = FALSE
  /\ gestures = 0
  /\ finalCanvas = <<>>
  /\ before = NoBefore
  /\ last = Event
  /\ NoCalls

ScenarioSpec == InitScenario /\ [][Editing]_vars

\* --------------------------------------------------- after the scenario's crop
\* The state the scenario's crop leaves: a 200 x 150 bitmap showing the region
\* (100,100,200,150) of the 800 x 600 image (scale 4 on both axes), the element
\* (50,50,20,20), no tool active.  The pointer visits (40,40), (200,150) and
\* the sub-pixel position (120.5,100).  The drags counted are those that
\* follow.
RecropPoints == { Px(40, 40), Pos(120 * U + U \div 2, 100 * U), Px(200, 150) }

InitRecrop ==
  /\ activeTools = {}
  /\ isDrawing = FALSE
  /\ cropStart = NullPos
  /\ cropEnd = NullPos
  /\ annotateStart = NullPos
  /\ canvas = [width |-> 200, height |-> 150]
  /\ offscreenCanvas = [width |-> 200, height |-> 150,
                        content |-> ImageContent(100, 100, 200, 150)]
  /\ originalImage = [naturalWidth |-> 800, naturalHeight |-> 600]
  /\ lastImageData = <<RedrawCanvas(2, FALSE)>>
  /\ annotationElements = << Element(1, 50 * U, 50 * U, 20 * U, 20 * U) >>
  /\ toolsDisplayed = TRUE
  /\ loadState = "loaded"
  /\ cleaned = FALSE
  /\ listening = TRUE
  /\ inThrottle = FALSE
  /\ frames = <<>>
  /\ display = RedrawCanvas(4, FALSE)
  /\ now = 1
  /\ pointer = RecropPoints
  /\ docVersion = 4
  /\ stale = FALSE
  /\ gestures = 0
  /\ finalCanvas = <<>>
  /\ before = NoBefore
  /\ last = Event
  /\ NoCalls

RecropSpec == InitRecrop /\ [][Editing]_vars

\* ------------------------------------------------------- a thin element
\* The 800 x 600 image was cropped to its left 750 columns (scale 16/15 on x,
\* 1 on y) and a rectangle a little over one pixel wide was drawn at x = 9.
\* The pointer visits (3.25,10) and (10.25,50): the rectangle between them
\* holds the element, whose right edge is the selection's.
ThinElement == Element(1, 9 * U, 20 * U, U + U \div 4, 20 * U)
ThinElementPoints == { Pos(3 * U + U \div 4, 10 * U), Pos(10 * U + U \div 4, 50 * U) }

InitThinElement ==
  /\ activeTools = {}
  /\ isDrawing = FALSE
  /\ cropStart = NullPos
  /\ cropEnd = NullPos
  /\ annotateStart = NullPos
  /\ canvas = [width |-> 750, height |-> 600]
  /\ offscreenCanvas = [width |-> 750, height |-> 600,
                        content |-> ImageContent(0, 0, 750, 600)]
  /\ originalImage = [naturalWidth |-> 800, naturalHeight |-> 600]
  /\ lastImageData = <<RedrawCanvas(2, FALSE)>>
  /\ annotationElements = << ThinElement >>
  /\ toolsDisplayed = TRUE
  /\ loadState = "loaded"
  /\ cleaned = FALSE
  /\ listening = TRUE
  /\ inThrottle = FALSE
  /\ frames = <<>>
  /\ display = RedrawCanvas(3, FALSE)
  /\ now = 1
  /\ pointer = ThinElementPoints
  /\ docVersion = 3
  /\ stale = FALSE
  /\ gestures = 0
  /\ finalCanvas = <<>>
  /\ before = NoBefore
  /\ last = Event
  /\ NoCalls

ThinElementSpec == InitThinElement /\ [][Editing]_vars

\* ------------------------------------------------- a tool switch mid-drag
\* On the loaded 800 x 600 screenshot the annotate tool was pressed at
\* (200,150) and, with the button still down, the crop tool was clicked:
\* toggleTool leaves isDrawing and annotateStart as they are.  The pointer
\* visits (40,40) and (200,150).  The drags counted are those that follow.
SwitchPoints == { Px(40, 40), Px(200, 150) }

InitSwitch ==
  /\ activeTools = {"crop"}
  /\ isDrawing = TRUE
  /\ cropStart = NullPos
  /\ cropEnd = NullPos
  /\ annotateStart = Px(200, 150)
  /\ canvas = [width |-> 800, height |-> 600]
  /\ offscreenCanvas = [width |-> 800, height |-> 600,
                        content |-> ImageContent(0, 0, 800, 600)]
  /\ originalImage = [naturalWidth |-> 800, naturalHeight |-> 600]
  /\ lastImageData = <<RedrawCanvas(1, FALSE)>>
  /\ annotationElements = <<>>
  /\ toolsDisplayed = TRUE
  /\ loadState = "loaded"
  /\ cleaned = FALSE
  /\ listening = TRUE
  /\ inThrottle = FALSE
  /\ frames = <<>>
  /\ display = RedrawCanvas(1, FALSE)
  /\ now = 1
  /\ pointer = SwitchPoints
  /\ docVersion = 1
  /\ stale = FALSE
  /\ gestures = 0
  /\ finalCanvas = <<>>
  /\ before = NoBefore
  /\ last = Event
  /\ NoCalls

SwitchSpec == InitSwitch /\ [][Editing]_vars

\* ------------------------------------------------ an anchor left by a switch
\* On the loaded 800 x 600 screenshot the crop tool was pressed at (20,30),
\* the annotate tool was clicked with the button still down, and the button
\* was released: toggleTool and handleMouseUp leave cropStart and cropEnd as
\* handleMouseDown set them.  The pointer visits (200,150) and (400,300), never
\* (20,30).  The drags counted are those that follow.
StaleAnchor == Px(20, 30)

StalePoints == { Px(200, 150), Px(400, 300) }

InitStale ==
  /\ activeTools = {"annotate"}
  /\ isDrawing = FALSE
  /\ cropStart = StaleAnchor
  /\ cropEnd = StaleAnchor
  /\ annotateStart = NullPos
  /\ canvas = [width |-> 800, height |-> 600]
  /\ offscreenCanvas = [width |-> 800, height |-> 600,
                        content |-> ImageContent(0, 0, 800, 600)]
  /\ originalImage = [naturalWidth |-> 800, naturalHeight |-> 600]
  /\ lastImageData = <<>>
  /\ annotationElements = <<>>
  /\ toolsDisplayed = TRUE
  /\ loadState = "loaded"
  /\ cleaned = FALSE
  /\ listening = TRUE
  /\ inThrottle = FALSE
  /\ frames = <<>>
  /\ display = RedrawCanvas(1, FALSE)
  /\ now = 1
  /\ pointer = StalePoints
  /\ docVersion = 1
  /\ stale = FALSE
  /\ gestures = 0
  /\ finalCanvas = <<>>
  /\ before = NoBefore
  /\ last = Event
  /\ NoCalls

StaleSpec == InitStale /\ [][Editing]_vars

\* ============================================================ save, download
\* Strings are sequences of one-character strings, so that the replacements
\* of saveImage act character by character as the regular expressions do.
Digits == <<"0", "1", "2", "3", "4", "5", "6", "7", "8", "9">>

Letters ==
  {"a", "b", "c", "d", "e", "f", "g", "h", "i", "j", "k", "l", "m", "n", "o",
   "p", "q", "r", "s", "t", "u", "v", "w", "x", "y", "z",
   "A", "B", "C", "D", "E", "F", "G", "H", "I", "J", "K", "L", "M", "N", "O",
   "P", "Q", "R", "S", "T", "U", "V", "W", "X", "Y", "Z"}

\* The characters [a-zA-Z0-9_\-\/] that the second replacement of
\* saveLocation leaves in place.
FilenameChars ==
  Letters \cup {Digits[i] : i \in 1..10} \cup {"_", "-", "/"}

\* n written with w decimal digits, zero padded, as Date.toISOString writes
\* the fields of a date.
RECURSIVE Pad(_, _)
Pad(n, w) ==
  IF w = 0 THEN <<>> ELSE Append(Pad(n \div 10, w - 1), Digits[(n % 10) + 1])

\* Date.prototype.toISOString: YYYY-MM-DDTHH:mm:ss.sssZ.
ToISOString(d) ==
  Pad(d.year, 4) \o <<"-">> \o Pad(d.month, 2) \o <<"-">> \o Pad(d.day, 2)
    \o <<"T">> \o Pad(d.hour, 2) \o <<":">> \o Pad(d.minute, 2) \o <<":">>
    \o Pad(d.second, 2) \o <<".">> \o Pad(d.ms, 3) \o <<"Z">>

\* String.replace with a global character-class pattern: every character of
\* s that is in chars becomes by.
ReplaceAll(s, chars, by) ==
  [i \in 1..Len(s) |-> IF s[i] \in chars THEN by ELSE s[i]]

\* String.replace with a one-character string pattern: only the first
\* occurrence of ch is replaced by the string by.
ReplaceFirst(s, ch, by) ==
  IF \E i \in 1..Len(s) : s[i] = ch
  THEN LET i == CHOOSE k \in 1..Len(s) :
                  s[k] = ch /\ \A j \in 1..(k - 1) : s[j] # ch
       IN  SubSeq(s, 1, i - 1) \o by \o SubSeq(s, i + 1, Len(s))
  ELSE s

\* timestamp of saveImage.
Timestamp(d) ==
  ReplaceFirst(ReplaceFirst(ReplaceAll(ToISOString(d), {":", "."}, "-"),
                            "T", <<"_">>),
               "Z", <<>>)

\* A variant of the first replacement of saveLocation that strips the
\* leading slashes only.
RECURSIVE StripSlashesLeading(_)
StripSlashesLeading(s) ==
  IF s # <<>> /\ Head(s) = "/" THEN StripSlashesLeading(Tail(s)) ELSE s

\* saveLocation.replace(/^\/+|\/+$/g, ''): the run of slashes at the start
\* and the run of slashes at the end are removed.
RECURSIVE StripSlashes(_)
StripSlashes(s) ==
  IF s # <<>> /\ Head(s) = "/" THEN StripSlashes(Tail(s))
  ELSE IF s # <<>> /\ s[Len(s)] = "/" THEN StripSlashes(SubSeq(s, 1, Len(s) - 1))
  ELSE s

\* sanitizedSaveLocation of saveImage: after the slashes are stripped every
\* character outside [a-zA-Z0-9_\-\/] becomes "_".
SanitizedSaveLocation(saveLocation) ==
  [i \in 1..Len(StripSlashes(saveLocation)) |->
     IF StripSlashes(saveLocation)[i] \in FilenameChars
     THEN StripSlashes(saveLocation)[i] ELSE "_"]

SnipScreenPrefix ==
  <<"/", "S", "n", "i", "p", "S", "c", "r", "e", "e", "n", "-">>

PngSuffix == <<".", "p", "n", "g">>

\* filename of saveImage.
Filename(saveLocation, d) ==
  SanitizedSaveLocation(saveLocation) \o SnipScreenPrefix \o Timestamp(d)
    \o PngSuffix

\* The configured folder names tried: every string of at most MaxLocationLen
\* characters over a letter, the slash and two characters outside the allowed
\* set.
MaxLocationLen == 3

LocationChars == {"T", "/", ".", " "}

SaveLocations ==
  UNION {[1..n -> LocationChars] : n \in 0..MaxLocationLen}

\* The clock readings tried by new Date().
Dates ==
  {[year |-> 2000, month |-> 1, day |-> 1, hour |-> 0, minute |-> 0,
    second |-> 0, ms |-> 0],
   [year |-> 2026, month |-> 11, day |-> 2, hour |-> 13, minute |-> 49,
    second |-> 40, ms |-> 123],
   [year |-> 9999, month |-> 12, day |-> 31, hour |-> 23, minute |-> 59,
    second |-> 59, ms |-> 999]}

\* The largest retry count a caller of tryDownload passes.
MaxRetries == 2

\* tryDownload is entered: the loop starts at attempt 0.
Entered(caller, retries) ==
  [phase |-> IF 0 <= retries THEN "attempting" ELSE "returned",
   caller |-> caller, retries |-> retries, attempt |-> 0, attempts |-> 0,
   failures |-> 0, successes |-> 0, waited |-> 0]

\* No call of tryDownload is running.
DownloadIdle == download.phase \in {"none", "returned", "thrown"}

\* saveImage past its two checks, up to the call tryDownload(dataUrl,
\* filename, 0): the filename is built from the stored saveLocation and the
\* clock.
SaveImage(saveLocation, d) ==
  /\ DownloadIdle
  /\ filename' = <<[saveLocation |-> saveLocation,
                    sanitizedSaveLocation |-> SanitizedSaveLocation(saveLocation),
                    timestamp |-> Timestamp(d),
                    name |-> Filename(saveLocation, d)]>>
  /\ download' = Entered("saveImage", 0)
  /\ UNCHANGED <<mousePos, storage, handoffs>>

\* A call tryDownload(url, filename, retries) by another caller, with a
\* filename that saveImage did not build.
TryDownload(retries) ==
  /\ DownloadIdle
  /\ download' = Entered("other", retries)
  /\ filename' = <<>>
  /\ UNCHANGED <<mousePos, storage, handoffs>>

\* A variant of the test for the last attempt that is true one attempt early.
LastAttemptOneEarly(attempt, retries) == attempt + 1 = retries

\* attempt === retries in the catch block of tryDownload.
LastAttempt(attempt, retries) == attempt = retries

\* One pass of the loop of tryDownload: chrome.downloads.download resolves
\* (ok) or rejects. On a rejection the last attempt throws; an earlier one
\* waits 300 + attempt * 200 ms when retries > 0, and the loop goes on with
\* attempt + 1 while attempt + 1 <= retries.
DownloadAttempt(ok) ==
  /\ download.phase = "attempting"
  /\ download' =
       IF ok
       THEN [download EXCEPT !.phase = "returned",
                             !.attempts = @ + 1, !.successes = @ + 1]
       ELSE IF LastAttempt(download.attempt, download.retries)
       THEN [download EXCEPT !.phase = "thrown",
                             !.attempts = @ + 1, !.failures = @ + 1]
       ELSE [download EXCEPT
               !.phase = IF download.retries > 0 THEN "waiting"
                         ELSE IF download.attempt + 1 <= download.retries
                         THEN "attempting" ELSE "returned",
               !.waited = IF download.retries > 0
                          THEN 300 + download.attempt * 200 ELSE @,
               !.attempt = @ + 1,
               !.attempts = @ + 1, !.failures = @ + 1]
  /\ UNCHANGED <<filename, mousePos, storage, handoffs>>

\* The backoff timer of tryDownload fires: the loop test attempt <= retries
\* is made for the next attempt.
BackoffElapsed ==
  /\ download.phase = "waiting"
  /\ download' =
       [download EXCEPT
          !.phase = IF download.attempt <= download.retries
                    THEN "attempting" ELSE "returned"]
  /\ UNCHANGED <<filename, mousePos, storage, handoffs>>

\* The editor is left as it was constructed.
EditorIdle ==
  UNCHANGED <<activeTools, isDrawing, cropStart, cropEnd, annotateStart,
              canvas, offscreenCanvas, originalImage, lastImageData,
              annotationElements, toolsDisplayed, loadState, cleaned,
              listening, inThrottle, frames, display, now, pointer,
              docVersion, stale, gestures, finalCanvas, before, last>>

Saving ==
  \/ \E saveLocation \in SaveLocations, d \in Dates :
       SaveImage(saveLocation, d) /\ EditorIdle
  \/ \E retries \in 0..MaxRetries : TryDownload(retries) /\ EditorIdle
  \/ \E ok \in BOOLEAN : DownloadAttempt(ok) /\ EditorIdle
  \/ BackoffElapsed /\ EditorIdle

\* The download promise settles and the backoff timer fires.
SaveSpec ==
  /\ Init
  /\ [][Saving]_vars
  /\ WF_vars(\E ok \in BOOLEAN : DownloadAttempt(ok) /\ EditorIdle)
  /\ WF_vars(BackoffElapsed /\ EditorIdle)

\* ------------------------------------------------- getMousePos, with scaling
\* Display coordinates (clientX, clientY and the cached rectangle) are
\* integers in units of 1/U CSS pixel; the bitmap position is in units of
\* 1/U pixel, and a quotient is cut to that grid.

\* updateCanvasRect: with a canvas the cache takes its bounding rectangle.
UpdateCanvasRect(bounding) == <<bounding>>

\* A variant of the scaling that multiplies by rectSize / bitmapSize.
ScaledCoordinateInverse(client, origin, size, rectSize) ==
  IF size = 0 THEN client - origin
  ELSE ((client - origin) * rectSize) \div (size * U * U)

\* canvasX of getMousePos (and canvasY): (client - origin) * scale with
\* scale = 1 for a rectangle of size zero and bitmapSize / rectSize otherwise.
ScaledCoordinate(client, origin, size, rectSize) ==
  IF rectSize = 0 THEN client - origin
  ELSE ((client - origin) * size * U) \div rectSize

\* getMousePos(e) with the cache canvasRect (<<>> when null), the rectangle
\* getBoundingClientRect would give and the canvas cnv.
MousePosition(client, canvasRect, bounding, cnv) ==
  LET cache == IF canvasRect = <<>> THEN UpdateCanvasRect(bounding)
               ELSE canvasRect
  IN  IF cache = <<>> THEN Pos(0, 0)
      ELSE GetMousePos(
             Pos(ScaledCoordinate(client.x, cache[1].left, cnv.width,
                                  cache[1].width),
                 ScaledCoordinate(client.y, cache[1].top, cnv.height,
                                  cache[1].height)),
             cnv)

\* The display rectangles tried: at the origin or at a fractional offset
\* below the toolbar, of size zero, half the bitmap's or the bitmap's.
DisplayRects ==
  {[left |-> l, top |-> 56 * U, width |-> w, height |-> h] :
     l \in {0, 10 * U + U \div 2},
     w \in {0, (ImgW \div 2) * U, ImgW * U},
     h \in {0, (ImgH \div 2) * U, ImgH * U}}

\* The pointer positions tried, outside and inside the rectangles.
ClientPoints ==
  {Pos(x, y) :
     x \in {0 - 5 * U, 10 * U + U \div 2, 333 * U, (ImgW + 100) * U},
     y \in {0, 56 * U, 101 * U + 1, (ImgH + 100) * U}}

\* The bitmaps tried: the default canvas and the loaded image.
Bitmaps ==
  {[width |-> DefaultCanvasWidth, height |-> DefaultCanvasHeight],
   [width |-> ImgW, height |-> ImgH]}

\* A pointer event reaches getMousePos.
PointerEvent(client, canvasRect, bounding, cnv) ==
  /\ mousePos' =
       <<[client |-> client,
          rect |-> IF canvasRect = <<>> THEN bounding ELSE canvasRect[1],
          cnv |-> cnv,
          pos |-> MousePosition(client, canvasRect, bounding, cnv)]>>
  /\ UNCHANGED <<download, filename, storage, handoffs>>

Pointing ==
  \E client \in ClientPoints, bounding \in DisplayRects, cached \in BOOLEAN,
     cnv \in Bitmaps :
    /\ PointerEvent(client, IF cached THEN <<bounding>> ELSE <<>>, bounding,
                    cnv)
    /\ EditorIdle

MousePosSpec == Init /\ [][Pointing]_vars

\* --------------------------------------------------- a save and its download
\* The click listener of saveTool with the asynchronous tail of saveImage:
\* the listener deselects the drawing tools and saveImage runs to its first
\* await with the export buffer prepared; the filename is built and
\* tryDownload(dataUrl, filename, 0) is entered.  The download settles in a
\* later step (DownloadAttempt), and the toolbar takes clicks in between.
\* One save is in flight at a time.
SaveClick(saveLocation, d) ==
  LET sel == DeselectTools(activeTools, display, toolsDisplayed, docVersion,
                           stale, cleaned)
      e == Export("save", sel.activeTools, isDrawing, canvas, offscreenCanvas,
                  annotationElements, stale, cleaned, TRUE)
  IN  /\ DownloadIdle
      /\ activeTools' = sel.activeTools
      /\ display' = sel.display
      /\ finalCanvas' = e.finalCanvas
      /\ before' = NoBefore
      /\ last' = Op("save", "", e.outcome)
      /\ IF e.outcome = "prepared"
           THEN /\ filename' =
                     <<[saveLocation |-> saveLocation,
                        sanitizedSaveLocation |->
                          SanitizedSaveLocation(saveLocation),
                        timestamp |-> Timestamp(d),
                        name |-> Filename(saveLocation, d)]>>
                /\ download' = Entered("saveImage", 0)
           ELSE UNCHANGED <<filename, download>>
      /\ UNCHANGED <<isDrawing, cropStart, cropEnd, annotateStart, canvas,
                     offscreenCanvas, originalImage, lastImageData,
                     annotationElements, toolsDisplayed, loadState, cleaned,
                     listening, inThrottle, frames, now, pointer, docVersion,
                     stale, gestures, mousePos, storage, handoffs>>

\* The folder names of at most one character.
ShortLocations == {s \in SaveLocations : Len(s) <= 1}

SaveClicking ==
  \/ \E tool \in Tools : ToolClick(tool)
  \/ \E saveLocation \in ShortLocations, d \in Dates : SaveClick(saveLocation, d)
  \/ \E ok \in BOOLEAN : DownloadAttempt(ok) /\ EditorIdle

\* The scenario's document with the toolbar, a save button and the download.
SaveClickSpec == InitScenario /\ [][SaveClicking]_vars

\* ------------------------------------------------- capture-to-editor handoff
\* handleScreenshot in the background script and loadScreenshot in the editor
\* page it opens run in different processes and meet in chrome.storage.local.
\* Each await of handleScreenshot is a step; the editor page's read and the
\* removal its failure path requests are steps of the page.

\* handleScreenshot(tab) is called and captureVisibleTab resolves with an
\* image.  Captures are started in order.
Capture(i) ==
  /\ handoffs[i].background = "idle"
  /\ i > 1 => handoffs[i - 1].background # "idle"
  /\ handoffs' = [handoffs EXCEPT ![i].background = "captured"]
  /\ UNCHANGED storage

\* captureVisibleTab rejects or gives nothing: the catch block removes the
\* entries from the store.
CaptureFails(i) ==
  /\ handoffs[i].background = "idle"
  /\ i > 1 => handoffs[i - 1].background # "idle"
  /\ handoffs' = [handoffs EXCEPT ![i].background = "failed"]
  /\ storage' = <<>>

\* chrome.tabs.create resolves: the editor tab exists and its page starts up
\* (constructor, loadScreenshot up to the await of storage.local.get).
CreateTab(i) ==
  /\ handoffs[i].background = "captured"
  /\ handoffs' = [handoffs EXCEPT ![i].background = "tabCreated",
                                  ![i].editor = "starting"]
  /\ UNCHANGED storage

\* chrome.storage.local.set({currentScreenshot: ...}) of handleScreenshot.
StorageSet(i) ==
  /\ handoffs[i].background = "tabCreated"
  /\ handoffs' = [handoffs EXCEPT ![i].background = "stored"]
  /\ storage' = <<i>>

\* The read of loadScreenshot: with no entry it throws, handleLoadFailure runs
\* and the removal of currentScreenshot is requested; with an entry the image
\* is decoded.
EditorRead(i) ==
  /\ handoffs[i].editor = "starting"
  /\ handoffs' = [handoffs EXCEPT
                    ![i].editor = IF storage = <<>> THEN "removing" ELSE "decoding"]
  /\ UNCHANGED storage

\* The removal requested by the failure path takes effect.
EditorRemove(i) ==
  /\ handoffs[i].editor = "removing"
  /\ handoffs' = [handoffs EXCEPT ![i].editor = "failed"]
  /\ storage' = <<>>

\* img.onload: the editor shows the screenshot.
ImageLoaded(i) ==
  /\ handoffs[i].editor = "decoding"
  /\ handoffs' = [handoffs EXCEPT ![i].editor = "loaded"]
  /\ UNCHANGED storage

HandingOff ==
  \E i \in 1..MaxCaptures :
    \/ Capture(i) /\ EditorIdle /\ UNCHANGED <<download, mousePos, filename>>
    \/ CaptureFails(i) /\ EditorIdle /\ UNCHANGED <<download, mousePos, filename>>
    \/ CreateTab(i) /\ EditorIdle /\ UNCHANGED <<download, mousePos, filename>>
    \/ StorageSet(i) /\ EditorIdle /\ UNCHANGED <<download, mousePos, filename>>
    \/ EditorRead(i) /\ EditorIdle /\ UNCHANGED <<download, mousePos, filename>>
    \/ EditorRemove(i) /\ EditorIdle /\ UNCHANGED <<download, mousePos, filename>>
    \/ ImageLoaded(i) /\ EditorIdle /\ UNCHANGED <<download, mousePos, filename>>

HandoffSpec == Init /\ [][HandingOff]_vars

\* =================================================================== claims
\* The last operation was toggleTool(tool) and it got past the visibility
\* check.
Toggled(tool) ==
  last.op = "toggleTool" /\ last.tool = tool /\ last.outcome = "toggled"

\* C1: in every reachable state at most one of the drawing tools crop and
\* annotate is active.
AtMostOneDrawingTool == Cardinality(activeTools \cap Tools) <= 1

\* C1's case: after the load and a crop attempt that resized the bitmap, a
\* click on one drawing tool while the other was active.
SwitchedAfterCrop ==
  /\ loadState = "loaded"
  /\ canvas # [width |-> ImgW, height |-> ImgH]
  /\ \E tool \in Tools : Toggled(tool) /\ last.active = Tools \ {tool}
  /\ Cardinality(activeTools) = 1

\* C2: toggleTool('annotate') with crop active and the annotate element visible
\* leaves annotate active and crop not; the same with the tools exchanged.
SwitchLeavesOnlyTheNewTool ==
  \A tool \in Tools :
    Toggled(tool) /\ last.active = Tools \ {tool} => activeTools = {tool}

\* C2's case: annotate was toggled while crop was active.
SwitchedCropToAnnotate ==
  Toggled("annotate") /\ last.active = {"crop"} /\ "annotate" \in activeTools

Cropped(outcome) == last.op = "completeCrop" /\ last.outcome = outcome

\* C4: a crop that fails after the prerequisite checks leaves the working
\* bitmap (dimensions and content) and the element list as they were before.
FailedCropLeavesDocument ==
  Cropped("error") =>
    /\ canvas = before.canvas
    /\ offscreenCanvas = before.offscreenCanvas
    /\ annotationElements = before.annotationElements

\* C5: no render (of the visible canvas, of the export buffer, of a preview
\* callback) reads a bitmap resized by a crop together with elements that were
\* not re-projected.
NoTornRender ==
  /\ ~display.torn
  /\ finalCanvas # <<>> => ~finalCanvas[1].torn

\* The selection completeCrop worked on, and the region of the original image
\* the bitmap held before it.
SelectionBefore ==
  CropSelection(before.cropStart, before.cropEnd, before.offscreenCanvas.width,
                before.offscreenCanvas.height)

CroppedBefore ==
  /\ before.offscreenCanvas.content.kind = "image"
  /\ before.offscreenCanvas.content #
       ImageContent(0, 0, originalImage.naturalWidth, originalImage.naturalHeight)

\* C6: a successful crop of an already cropped bitmap yields the selected
\* sub-region of that bitmap: its origin in the original image is the earlier
\* origin plus the selection's offset and its size is the selection's size
\* (each to within the pixel that rounding may cost).
SecondCropComposes ==
  Cropped("ok") /\ CroppedBefore =>
    LET c0 == before.offscreenCanvas.content
        c == offscreenCanvas.content
    IN  /\ Abs(c.x * U - (c0.x * U + SelectionBefore.x)) <= U
        /\ Abs(c.y * U - (c0.y * U + SelectionBefore.y)) <= U
        /\ Abs(c.width * U - SelectionBefore.width) <= U
        /\ Abs(c.height * U - SelectionBefore.height) <= U

\* An element of the list before the crop, re-projected by the scale of that
\* bitmap to the original image and the origin of the region now shown.
Reprojected(e) ==
  LET sx == originalImage.naturalWidth
      sy == originalImage.naturalHeight
      cw == before.offscreenCanvas.width
      ch == before.offscreenCanvas.height
  IN  [e EXCEPT
         !.x = U * RoundDiv(e.x * sx - offscreenCanvas.content.x * U * cw, U * cw),
         !.y = U * RoundDiv(e.y * sy - offscreenCanvas.content.y * U * ch, U * ch),
         !.width = U * RoundDiv(e.width * sx, U * cw),
         !.height = U * RoundDiv(e.height * sy, U * ch)]

\* The rectangle of e meets [0, width) x [0, height) of the visible canvas.
MeetsBitmap(e) ==
  /\ e.x < canvas.width * U
  /\ e.y < canvas.height * U
  /\ e.x + e.width > 0
  /\ e.y + e.height > 0

\* The rectangle of e lies inside the visible canvas.
InsideBitmap(e) ==
  /\ e.x >= 0
  /\ e.y >= 0
  /\ e.x + e.width <= canvas.width * U
  /\ e.y + e.height <= canvas.height * U

\* C7 (as the code has it): after a successful crop the list holds, in order,
\* the re-projected elements whose rectangle meets the new bitmap, each with
\* its re-projected bounds as they are (not clamped to the bitmap); the
\* elements whose re-projected rectangle does not meet the bitmap are removed.
CropKeepsElementsMeetingBitmap ==
  Cropped("ok") =>
    annotationElements =
      SelectSeq([i \in 1..Len(before.annotationElements) |->
                   Reprojected(before.annotationElements[i])],
                MeetsBitmap)

\* C7's case: a crop removed an element and kept one that reaches beyond the
\* new bitmap.
CropKeptElementAcrossEdge ==
  /\ Cropped("ok")
  /\ Len(annotationElements) < Len(before.annotationElements)
  /\ \E i \in 1..Len(annotationElements) : ~InsideBitmap(annotationElements[i])

\* C7 as stated: after a successful crop the elements kept are those whose
\* rectangle overlapped the crop rectangle, and each is clamped to the new
\* bitmap's bounds.
CropClampsKeptElements ==
  Cropped("ok") =>
    /\ Len(annotationElements) =
         Cardinality({i \in 1..Len(before.annotationElements) :
                        LET e == before.annotationElements[i]
                        IN  /\ e.x < SelectionBefore.x + SelectionBefore.width
                            /\ e.y < SelectionBefore.y + SelectionBefore.height
                            /\ SelectionBefore.x < e.x + e.width
                            /\ SelectionBefore.y < e.y + e.height})
    /\ \A i \in 1..Len(annotationElements) : InsideBitmap(annotationElements[i])

\* The crop guides drawCropGuides paints for the selection as it stands.
GuidesOfSelection ==
  DrawCropGuides(SpanRect(cropStart, cropEnd), canvas, docVersion, stale).guides

\* C8: the throttle drops no final move of a burst: once the throttle window
\* of a crop drag is over, the guides on the canvas are those of the selection
\* up to the last move.
GuidesFollowLastMove ==
  ( /\ isDrawing
    /\ "crop" \in activeTools
    /\ cropStart # NullPos
    /\ ~cleaned
    /\ display.guides # NoRect
    /\ ~inThrottle )
  => display.guides = GuidesOfSelection

\* The crop began on a bitmap of the original image's size (scale 1).
ScaleOneBefore ==
  /\ before.offscreenCanvas.width = originalImage.naturalWidth
  /\ before.offscreenCanvas.height = originalImage.naturalHeight

\* The extent of the drag, in units, on each axis.
DragWidth == Abs(before.cropEnd.x - before.cropStart.x)
DragHeight == Abs(before.cropEnd.y - before.cropStart.y)

\* Both corners of the drag are whole pixels.
WholePixelDrag ==
  \A c \in {before.cropStart.x, before.cropStart.y, before.cropEnd.x, before.cropEnd.y} :
    c % U = 0

\* C9 (as the code has it): after a successful crop the visible and the
\* offscreen canvas have the size of the clamped source rectangle, which is
\* the size of the region of the original image they show.  At scale 1 a drag
\* between whole-pixel corners yields exactly |x1-x0| by |y1-y0| pixels; a drag
\* between sub-pixel corners yields on each axis the rounded extent, or one
\* pixel less where the rounded origin plus the rounded extent pass the image's
\* edge.
CropSizeIsSourceRectSize ==
  Cropped("ok") =>
    /\ canvas.width = offscreenCanvas.width
    /\ canvas.height = offscreenCanvas.height
    /\ canvas.width = offscreenCanvas.content.width
    /\ canvas.height = offscreenCanvas.content.height
    /\ ScaleOneBefore /\ WholePixelDrag =>
         canvas.width * U = DragWidth /\ canvas.height * U = DragHeight
    /\ ScaleOneBefore =>
         /\ canvas.width \in {RoundDiv(DragWidth, U) - 1, RoundDiv(DragWidth, U)}
         /\ canvas.height \in {RoundDiv(DragHeight, U) - 1, RoundDiv(DragHeight, U)}

\* C9's case: a successful crop at scale 1 between whole-pixel corners.
CroppedWholePixels ==
  Cropped("ok") /\ ScaleOneBefore /\ WholePixelDrag /\ canvas.width * U = DragWidth

\* C9 as stated: at scale 1 every successful crop yields exactly |x1-x0| by
\* |y1-y0| pixels.
CropSizeIsDragExtent ==
  Cropped("ok") /\ ScaleOneBefore =>
    /\ canvas.width = offscreenCanvas.width
    /\ canvas.height = offscreenCanvas.height
    /\ canvas.width * U = DragWidth
    /\ canvas.height * U = DragHeight

\* The crop of the scenario: on the 800 x 600 bitmap with the two elements, a
\* drag between (100,100) and (300,250).
ScenarioCrop ==
  /\ Cropped("ok")
  /\ before.offscreenCanvas = [width |-> 800, height |-> 600,
                               content |-> ImageContent(0, 0, 800, 600)]
  /\ before.annotationElements = << Element(0, 50 * U, 50 * U, 20 * U, 20 * U),
                                    Element(1, 150 * U, 150 * U, 20 * U, 20 * U) >>
  /\ {before.cropStart, before.cropEnd} = {Px(100, 100), Px(300, 250)}

\* C10: the crop of the scenario produces a 200 x 150 bitmap, removes the
\* element at (50,50,20,20) and leaves the other at (50,50,20,20).
ScenarioResult ==
  ScenarioCrop =>
    /\ canvas = [width |-> 200, height |-> 150]
    /\ offscreenCanvas = [width |-> 200, height |-> 150,
                          content |-> ImageContent(100, 100, 200, 150)]
    /\ annotationElements = << Element(1, 50 * U, 50 * U, 20 * U, 20 * U) >>

\* C10's case: the crop of the scenario was made and one element is left.
ScenarioCropDone == ScenarioCrop /\ Len(annotationElements) = 1

\* The rectangle of e lies inside the selection completeCrop worked on.
InsideSelection(e) ==
  /\ e.x >= SelectionBefore.x
  /\ e.y >= SelectionBefore.y
  /\ e.x + e.width <= SelectionBefore.x + SelectionBefore.width
  /\ e.y + e.height <= SelectionBefore.y + SelectionBefore.height

\* The source origin and the scale completeCrop computed, from the document
\* before the crop.
SourceBefore ==
  SourceRect(SelectionBefore, originalImage, before.offscreenCanvas.width,
             before.offscreenCanvas.height)

\* C11: a successful crop retains every element that lay entirely inside the
\* crop rectangle, with x = round(x*scaleX - sourceX), y = round(y*scaleY -
\* sourceY), width = round(width*scaleX), height = round(height*scaleY) and
\* with its id, type and color as they were.
CropReprojectsInnerElements ==
  Cropped("ok") =>
    \A i \in 1..Len(before.annotationElements) :
      LET e == before.annotationElements[i]
          cw == before.offscreenCanvas.width
          ch == before.offscreenCanvas.height
          expected ==
            [type |-> e.type, id |-> e.id, color |-> e.color,
             x |-> U * RoundDiv(e.x * originalImage.naturalWidth
                                  - SourceBefore.x * U * cw, U * cw),
             y |-> U * RoundDiv(e.y * originalImage.naturalHeight
                                  - SourceBefore.y * U * ch, U * ch),
             width |-> U * RoundDiv(e.width * originalImage.naturalWidth, U * cw),
             height |-> U * RoundDiv(e.height * originalImage.naturalHeight, U * ch)]
      IN  InsideSelection(e) =>
            \E j \in 1..Len(annotationElements) : annotationElements[j] = expected

\* C11's case: a crop at a scale other than 1 had an element inside its
\* rectangle.
CroppedAroundElementAtScale ==
  /\ Cropped("ok")
  /\ ~ScaleOneBefore
  /\ \E i \in 1..Len(before.annotationElements) :
       InsideSelection(before.annotationElements[i])
  /\ annotationElements # <<>>

\* The rectangle of e clipped to the working bitmap has positive width and
\* height.
ClipsToPositiveArea(e) ==
  /\ Min(e.x + e.width, offscreenCanvas.width * U) > Max(e.x, 0)
  /\ Min(e.y + e.height, offscreenCanvas.height * U) > Max(e.y, 0)

\* C12: in every reachable state the rectangle of every element of the
\* document, clipped to [0,width) x [0,height) of the current working bitmap,
\* has positive width and height.
ElementsMeetWorkingBitmap ==
  \A i \in 1..Len(annotationElements) : ClipsToPositiveArea(annotationElements[i])

\* C13: every element of the document has positive width and height in every
\* reachable state, also after crops scaled and rounded its rectangle.
ElementsHavePositiveSize ==
  \A i \in 1..Len(annotationElements) :
    annotationElements[i].width > 0 /\ annotationElements[i].height > 0

\* C13's case: a successful crop of a bitmap that is not at the original's
\* scale kept an element and changed its size.
CropResizedKeptElement ==
  /\ Cropped("ok")
  /\ ~ScaleOneBefore
  /\ \E i \in 1..Len(annotationElements), j \in 1..Len(before.annotationElements) :
       /\ annotationElements[i].id = before.annotationElements[j].id
       /\ annotationElements[i].width # before.annotationElements[j].width
       /\ annotationElements[i].height # before.annotationElements[j].height

\* C14: a crop commit whose selection, clamped to the working bitmap, is at
\* most one pixel wide or high is rejected: the canvases, the working bitmap,
\* the original image and the element list are as before, and cropStart and
\* cropEnd are null.
SmallCropRejected ==
  (last.op = "completeCrop" /\ before.originalImage # NoImage
     /\ (SelectionBefore.width <= U \/ SelectionBefore.height <= U)) =>
    /\ canvas = before.canvas
    /\ offscreenCanvas = before.offscreenCanvas
    /\ originalImage = before.originalImage
    /\ annotationElements = before.annotationElements
    /\ cropStart = NullPos
    /\ cropEnd = NullPos

\* C14's case: a crop drag released where it began, on a document that has
\* elements.
SmallCropAttempted ==
  /\ Cropped("tooSmall")
  /\ before.cropStart = before.cropEnd
  /\ before.annotationElements # <<>>

\* The last operation was a pointer-up that ended an annotate drag; before
\* holds the anchor (as cropStart) and the release point (as cropEnd).
Annotated == last.op = "annotate"

AnnotateRect == SpanRect(before.cropStart, before.cropEnd)

SourceRectInsideOriginal ==
  (Cropped("ok") \/ Cropped("error")) =>
    /\ SourceBefore.x >= 0
    /\ SourceBefore.y >= 0
    /\ SourceBefore.width >= 1
    /\ SourceBefore.height >= 1
    /\ SourceBefore.x + SourceBefore.width <= originalImage.naturalWidth
    /\ SourceBefore.y + SourceBefore.height <= originalImage.naturalHeight
    /\ Cropped("ok") =>
         offscreenCanvas.content =
           ImageContent(SourceBefore.x, SourceBefore.y, SourceBefore.width,
                        SourceBefore.height)

\* C16's case: a crop of an already cropped bitmap whose selection reaches the
\* bitmap's right and bottom edges.
CroppedToTheCorner ==
  /\ Cropped("ok")
  /\ CroppedBefore
  /\ SelectionBefore.x + SelectionBefore.width = before.offscreenCanvas.width * U
  /\ SelectionBefore.y + SelectionBefore.height = before.offscreenCanvas.height * U

\* C17: after a successful completeCrop the editor has left crop mode: crop
\* is not active, no drawing tool is active, isDrawing is false, and cropStart
\* and cropEnd are null.
SuccessfulCropLeavesCropMode ==
  Cropped("ok") =>
    /\ "crop" \notin activeTools
    /\ activeTools \cap Tools = {}
    /\ isDrawing = FALSE
    /\ cropStart = NullPos
    /\ cropEnd = NullPos

\* C17's case: a successful crop of the loaded image, started with the crop
\* tool as the only active tool.
CroppedInCropMode ==
  /\ Cropped("ok")
  /\ last.active = {"crop"}
  /\ ~CroppedBefore
  /\ canvas # before.canvas

AnchorsOnlyDuringDrag ==
  /\ (~isDrawing \/ "crop" \notin activeTools) =>
       cropStart = NullPos /\ cropEnd = NullPos
  /\ (~isDrawing \/ "annotate" \notin activeTools) => annotateStart = NullPos

\* C20: a pointer-move, during a drag or not, and the preview callback it
\* queues never change the document: the element list, the working bitmap
\* with its dimensions, the visible canvas' dimensions, the original image and
\* the active tools are unchanged, and so are the anchors and isDrawing (only
\* cropEnd and what the visible canvas shows may change).
MoveLeavesDocument ==
  [][((\E raw \in pointer : HandleMouseMove(raw)) \/ AnimationFrame) =>
       UNCHANGED <<annotationElements, offscreenCanvas, canvas, originalImage,
                   activeTools, cropStart, annotateStart, isDrawing>>]_vars

\* C20's case: a move during a crop drag took cropEnd away from cropStart and
\* drew the guides, on a document that has an element.
MovedDuringCropDrag ==
  /\ isDrawing
  /\ "crop" \in activeTools
  /\ cropStart # NullPos
  /\ cropEnd # cropStart
  /\ display.guides # NoRect
  /\ annotationElements # <<>>

\* C21: after handleLoadFailure has run no drawing tool is active, whatever
\* the order of the toolbar clicks and the load outcome (the tool items are
\* hidden, so no later click activates one).
NoToolAfterLoadFailure ==
  loadState = "failed" => activeTools \cap Tools = {}

\* C22: the elements of the document have pairwise distinct ids, also when two
\* annotate commits read the same clock value.
ElementIdsDistinct ==
  \A i, j \in 1..Len(annotationElements) :
    i # j => annotationElements[i].id # annotationElements[j].id

\* new holds re-projected elements of old in the order they have in old.
KeepsOrder(new, old) ==
  \E f \in [1..Len(new) -> 1..Len(old)] :
    /\ \A k \in 1..(Len(new) - 1) : f[k] < f[k + 1]
    /\ \A k \in 1..Len(new) : new[k] = Reprojected(old[f[k]])

\* The last operation was a copy or a save that prepared the export buffer.
Exported == last.op \in {"copy", "save"} /\ last.outcome = "prepared"

ExportIsBitmapUnderElements ==
  Exported =>
    /\ finalCanvas # <<>>
    /\ finalCanvas[1].width = offscreenCanvas.width
    /\ finalCanvas[1].height = offscreenCanvas.height
    /\ finalCanvas[1].background = "#FFFFFF"
    /\ finalCanvas[1].base = offscreenCanvas.content
    /\ finalCanvas[1].drawn =
         [i \in 1..Len(annotationElements) |-> RoundedRect(annotationElements[i])]
    /\ (annotationElements = <<>> /\ loadState = "loaded" /\ docVersion = 1) =>
         /\ finalCanvas[1].base = ImageContent(0, 0, originalImage.naturalWidth,
                                               originalImage.naturalHeight)
         /\ finalCanvas[1].drawn = <<>>

\* C24's case: an export of the loaded image under an element whose width is
\* not a whole number of pixels.
ExportedFractionalElement ==
  /\ Exported
  /\ loadState = "loaded"
  /\ offscreenCanvas.content.kind = "image"
  /\ \E i \in 1..Len(annotationElements) : annotationElements[i].width % U # 0

\* C25: rendering and exporting do not change the document: a click on a
\* drawing tool (whose toggle may call redrawCanvas) and a copy or a save
\* (prepareFinalCanvas, copyToClipboard, saveImage), whether it prepares the
\* buffer or fails, leave the element list, the working bitmap and its
\* dimensions, the visible canvas' dimensions and the original image
\* unchanged.
RendersLeaveDocument ==
  [][last'.op \in {"copy", "save", "toggleTool"} =>
       UNCHANGED <<annotationElements, offscreenCanvas, canvas, originalImage>>]_vars

\* C25's case: a save prepared its buffer from a document with two elements,
\* or a copy failed for want of the clipboard API on a document with elements.
ExportedOrFailedWithElements ==
  \/ last.op = "save" /\ last.outcome = "prepared" /\ Len(annotationElements) = 2
  \/ last.op = "copy" /\ last.outcome = "unsupported" /\ annotationElements # <<>>

\* C26: copyToClipboard and saveImage, when invoked while isDrawing is true
\* and the crop tool is active, return without preparing an export buffer (and
\* so without a clipboard write or a download).
ExportRefusedDuringCrop ==
  (last.op \in {"copy", "save"} /\ isDrawing /\ "crop" \in activeTools) =>
    /\ last.outcome \in {"finalizeCrop", "empty"}
    /\ finalCanvas = <<>>

\* C26's case: a copy or a save was refused because a crop drag was in
\* progress.
ExportRefused ==
  /\ last.op \in {"copy", "save"}
  /\ last.outcome = "finalizeCrop"
  /\ isDrawing
  /\ cropStart # NullPos

\* The counters of a call of tryDownload: the attempts made never exceed
\* retries + 1, nothing is attempted after a success, the call returns only
\* on a success and throws only after retries + 1 failures, and the call
\* made by saveImage has retries = 0 and ends after exactly one attempt.
DownloadOutcome ==
  /\ download.attempts <= download.retries + 1
  /\ download.attempts = download.failures + download.successes
  /\ download.successes <= 1
  /\ download.successes = 1 => download.phase = "returned"
  /\ download.phase = "returned" => download.successes = 1
  /\ download.phase = "thrown" =>
       /\ download.failures = download.retries + 1
       /\ download.successes = 0
  /\ download.caller = "saveImage" =>
       /\ download.retries = 0
       /\ download.phase \in {"returned", "thrown"} => download.attempts = 1

\* C27: tryDownload(url, filename, retries) makes at most retries + 1
\* attempts, stops at the first success and throws only after exactly
\* retries + 1 failures; saveImage calls it with retries = 0, so a save makes
\* exactly one attempt; and every call that was started ends.
TryDownloadBounded ==
  /\ []DownloadOutcome
  /\ (download.phase \in {"attempting", "waiting"}) ~> DownloadIdle

\* C27's case: a call with the largest retry count threw after waiting
\* between its attempts.
DownloadThrewAfterRetries ==
  /\ download.phase = "thrown"
  /\ download.retries = MaxRetries
  /\ download.waited > 300

\* The position getMousePos has to give on one axis: the product
\* (client - origin) * size / rectSize, cut to the 1/U pixel, when that lies
\* in [0, size]; else the nearer end of [0, size]; with the scale 1 for
\* rectSize = 0.
AxisMapped(p, client, origin, size, rectSize) ==
  LET n == IF rectSize = 0 THEN client - origin
           ELSE (client - origin) * size * U
      q == IF rectSize = 0 THEN 1 ELSE rectSize
  IN  /\ 0 <= p /\ p <= size * U
      /\ n < 0 => p = 0
      /\ n > size * U * q => p = size * U
      /\ (0 <= n /\ n <= size * U * q) => (p * q <= n /\ n < (p + 1) * q)

\* C28: getMousePos maps the display point to (client - rectOrigin) *
\* (bitmapSize / rectSize) per axis and returns a point with 0 <= x <= bitmap
\* width and 0 <= y <= bitmap height for every pointer position; on an axis
\* where the cached rectangle has size zero the scale is 1.
MousePosScaledAndClamped ==
  mousePos # <<>> =>
    /\ AxisMapped(mousePos[1].pos.x, mousePos[1].client.x,
                  mousePos[1].rect.left, mousePos[1].cnv.width,
                  mousePos[1].rect.width)
    /\ AxisMapped(mousePos[1].pos.y, mousePos[1].client.y,
                  mousePos[1].rect.top, mousePos[1].cnv.height,
                  mousePos[1].rect.height)

\* C28's case: a rectangle of width zero with the pointer beyond the bitmap
\* on that axis, and on the other axis a scaled position strictly inside the
\* bitmap that is not a whole pixel.
ZeroWidthRectClamped ==
  /\ mousePos # <<>>
  /\ mousePos[1].rect.width = 0
  /\ mousePos[1].client.x - mousePos[1].rect.left > mousePos[1].cnv.width * U
  /\ mousePos[1].pos.x = mousePos[1].cnv.width * U
  /\ mousePos[1].rect.height = (ImgH \div 2) * U
  /\ mousePos[1].cnv.height = ImgH
  /\ mousePos[1].pos.y > 0
  /\ mousePos[1].pos.y < ImgH * U
  /\ mousePos[1].pos.y % U # 0

\* s ends with the sequence t.
EndsWith(s, t) ==
  Len(t) <= Len(s) /\ SubSeq(s, Len(s) - Len(t) + 1, Len(s)) = t

\* C29: the filename saveImage builds is sanitized: for every saveLocation
\* the folder part has no leading and no trailing "/" and only characters of
\* [a-zA-Z0-9_-/], the filename is <folder>/SnipScreen-<timestamp>.png, and
\* the timestamp has no ":", ".", "T" or "Z".
FilenameSanitized ==
  filename # <<>> =>
    LET folder == filename[1].sanitizedSaveLocation
        stamp == filename[1].timestamp
    IN  /\ folder # <<>> => (Head(folder) # "/" /\ folder[Len(folder)] # "/")
        /\ \A i \in 1..Len(folder) : folder[i] \in FilenameChars
        /\ filename[1].name =
             folder \o SnipScreenPrefix \o stamp \o PngSuffix
        /\ \A i \in 1..Len(stamp) : stamp[i] \notin {":", ".", "T", "Z"}
        /\ Len(stamp) = Len(ToISOString(CHOOSE d \in Dates : TRUE)) - 1
        /\ EndsWith(filename[1].name, PngSuffix)

\* C29's case: a saveLocation with a slash at each end and characters
\* outside the allowed set between them.
SavedWithSlashedLocation ==
  /\ filename # <<>>
  /\ filename[1].saveLocation = <<"/", ".", "/">>
  /\ filename[1].sanitizedSaveLocation = <<"_">>
  /\ download.phase = "returned"

\* C30: once cleanup() has run the four pointer listeners of the canvas are
\* removed, and no pointer handler has cancelled a drag on the torn-down
\* editor.
ListenersRemovedByCleanup ==
  cleaned => (~listening /\ last.op # "mouseLeave")

\* The save started by the toolbar click enters its download in this step.
SaveStarts ==
  download.phase # "attempting" /\ download'.phase = "attempting"

\* The download of the save settles in this step: saveImage finishes.
SaveFinishes ==
  download.phase = "attempting" /\ download'.phase \in {"returned", "thrown"}

\* C31: a toolbar click on Save deactivates every active drawing tool before
\* the export runs, so no drawing tool is active in the state in which
\* saveImage starts nor in the state in which it finishes.
NoToolAroundExport ==
  [][(SaveStarts \/ SaveFinishes) => activeTools' \cap Tools = {}]_vars

\* The left edge, top edge, width and height of the region of the original
\* image that the rectangle e covers on a bitmap of size bw x bh showing the
\* region c of the original image, each multiplied by bw or bh (units of 1/U
\* pixel of the original image).
CoveredLeft(e, c, bw) == c.x * U * bw + e.x * c.width
CoveredTop(e, c, bh) == c.y * U * bh + e.y * c.height
CoveredWidth(e, c) == e.width * c.width
CoveredHeight(e, c) == e.height * c.height

\* C32: an element retained through a successful crop covers the same pixels
\* of the original image after the crop as before it (to within the pixel
\* that rounding may cost), for the first crop and for any later crop.
RetainedElementCoversSamePixels ==
  (Cropped("ok") /\ before.offscreenCanvas.content.kind = "image") =>
    \A j \in 1..Len(before.annotationElements) :
      LET e == before.annotationElements[j]
          n == Reprojected(e)
          c0 == before.offscreenCanvas.content
          c == offscreenCanvas.content
          bw0 == before.offscreenCanvas.width
          bh0 == before.offscreenCanvas.height
          bw == offscreenCanvas.width
          bh == offscreenCanvas.height
      IN  (\E i \in 1..Len(annotationElements) : annotationElements[i] = n) =>
            /\ Abs(CoveredLeft(n, c, bw) * bw0 - CoveredLeft(e, c0, bw0) * bw)
                 <= U * bw * bw0
            /\ Abs(CoveredTop(n, c, bh) * bh0 - CoveredTop(e, c0, bh0) * bh)
                 <= U * bh * bh0
            /\ Abs(CoveredWidth(n, c) * bw0 - CoveredWidth(e, c0) * bw)
                 <= U * bw * bw0
            /\ Abs(CoveredHeight(n, c) * bh0 - CoveredHeight(e, c0) * bh)
                 <= U * bh * bh0

\* C33: a successful crop never enlarges the working bitmap: the new width
\* and height are at most those of the bitmap before the crop.
CropNeverEnlarges ==
  Cropped("ok") =>
    /\ offscreenCanvas.width <= before.offscreenCanvas.width
    /\ offscreenCanvas.height <= before.offscreenCanvas.height

\* C34: a crop is committed only with the anchor recorded by the pointer-down
\* that started the current drag while crop was active: completeCrop never
\* runs with a cropStart left over from an earlier gesture, here the anchor
\* at a position the pointer does not visit again.
CropAnchorOfCurrentDrag ==
  last.op = "completeCrop" => before.cropStart # StaleAnchor

\* C35: whenever no drag is in progress the visible canvas of the loaded
\* editor shows exactly the display render of the document: the working
\* bitmap and the committed elements at their current version, and no crop
\* guides, dimming mask or preview rectangle, nor paint left beneath them.
IdleCanvasShowsDocument ==
  (~isDrawing /\ loadState = "loaded" /\ ~cleaned) =>
    /\ display.version = docVersion
    /\ display.elements
    /\ display.guides = NoRect
    /\ ~display.preview
    /\ ~display.residue

\* C36: no export is produced while a drag is in progress: whenever
\* copyToClipboard or saveImage has prepared its export buffer, isDrawing is
\* false and no crop selection anchor is pending.
NoExportDuringDrag ==
  Exported => (~isDrawing /\ cropStart = NullPos /\ cropEnd = NullPos)

\* C37: the capture-to-editor handoff is race-free: no editor page opened by
\* handleScreenshot after a capture reads the store and finds no
\* currentScreenshot entry, in any interleaving of the tab creation and the
\* storage write with the page's read and its failure-path removal.
HandoffRaceFree ==
  \A i \in 1..MaxCaptures : handoffs[i].editor \notin {"removing", "failed"}
====
